---- MODULE Spec2Model ----
(***************************************************************************)
(* Model of update() in update_module.py: discovery of the mods, dependency *)
(* validation, load order, and the staged sweep over the Lua engine.        *)
(*                                                                          *)
(* update() is one sequential routine; the model follows it with a program  *)
(* counter pc.  What update() reads from the file system (directory         *)
(* entries, the declarations of an info.json, the stage files of an         *)
(* archive, the outcome of a Lua execution) is drawn with \E at the step    *)
(* that consumes it: every such input is consumed exactly once.             *)
(***************************************************************************)
EXTENDS Integers, Sequences, FiniteSets, TLC

\* ------------------------------------------------------------------ bounds
MaxMods == 2
MaxDeps == 2
MaxRecursion == 6

\* --------------------------------------------------------------- universe
None == "None"

\* Python compares str by code point; the names of the model, ascending.
NameOrder == <<"aaa", "base", "bob", "cat", "core", "dog", "eel">>

NameRank(n) == CHOOSE i \in 1..Len(NameOrder) : NameOrder[i] = n

NameLt(a, b) == NameRank(a) < NameRank(b)

\* Names a directory entry of factorio-mods may carry.
AllCandidates == <<"aaa", "bob", "cat", "dog", "eel">>

Candidates == {AllCandidates[i] : i \in 1..MaxMods}

\* Version strings, as tuples of characters.
V10 == <<"1", ".", "0">>
V100 == <<"1", ".", "0", ".", "0">>
V15 == <<"1", ".", "5">>
V20 == <<"2", ".", "0">>
V110 == <<"1", ".", "1", ".", "0">>

\* base_info["version"] of factorio-data/base/info.json
BaseInfoVersion == V110

\* info["version"] of a mod archive, by mod name
ModInfoVersion(name) ==
    CASE name = "aaa" -> V15
      [] name = "bob" -> V100
      [] name = "cat" -> V20
      [] OTHER -> V10

Flags == {None, "!", "?", "~"}
\* What group 3 of dependency_regex, ([><=]=?)?, holds of the operator a
\* declaration is written with.
Ops == {"==", ">=", "<=", ">", "<", "="}
ReqVersions == {V10, V20}

\* The groups m[1..4] of dependency_regex on a declaration string.
Declarations ==
    [flag : Flags, dep_name : Candidates \cup {"base"}, op : {None}, version : {None}]
    \cup [flag : Flags, dep_name : Candidates \cup {"base"}, op : Ops, version : ReqVersions]

NoDecl == [flag |-> None, dep_name |-> None, op |-> None, version |-> None]

\* dependency_regex.match returned None: the string has no mod name.
NoMatch == [flag |-> "no match", dep_name |-> None, op |-> None, version |-> None]

stages == <<"data.lua", "data-updates.lua", "data-final-fixes.lua">>

\* ---------------------------------------------------------------- versions
Digits == <<"0", "1", "2", "3", "4", "5", "6", "7", "8", "9">>

DigitVal(c) == (CHOOSE i \in 1..10 : Digits[i] = c) - 1

\* str.split('.') followed by int() on every component
RECURSIVE SplitInts(_, _, _)
SplitInts(s, i, acc) ==
    IF i > Len(s) THEN <<acc>>
    ELSE IF s[i] = "." THEN <<acc>> \o SplitInts(s, i + 1, 0)
    ELSE SplitInts(s, i + 1, acc * 10 + DigitVal(s[i]))

version_string_2_tuple(s) == SplitInts(s, 1, 0)

CountDots(s) == Cardinality({i \in 1..Len(s) : s[i] = "."})

\* update(): a three-number version gets ".0" appended
NormalizeFactorioVersion(v) == IF CountDots(v) = 2 THEN v \o <<".", "0">> ELSE v

factorio_version == NormalizeFactorioVersion(BaseInfoVersion)

Min(a, b) == IF a < b THEN a ELSE b

SeqRange(seq) == {seq[i] : i \in 1..Len(seq)}

\* Python's ordering of tuples: the first index where they differ decides,
\* and a proper prefix is smaller.
TupleLt(a, b) ==
    LET n == Min(Len(a), Len(b))
        diff == {i \in 1..n : a[i] # b[i]}
    IN  IF diff = {} THEN Len(a) < Len(b)
        ELSE LET k == CHOOSE i \in diff : \A j \in diff : i <= j
             IN  a[k] < b[k]

\* eval(str(actual) + op + str(target))
EvalCompare(a, op, b) ==
    CASE op = "==" -> a = b
      [] op = ">=" -> ~TupleLt(a, b)
      [] op = "<=" -> ~TupleLt(b, a)
      [] op = ">" -> TupleLt(b, a)
      [] op = "<" -> TupleLt(a, b)

\* ------------------------------------------------------------------ state
VARIABLES
    pc,          \* position in update()
    mod_list,    \* mod name -> enabled, from mod-list.json
    listed,      \* entries of os.listdir("factorio-mods") already iterated
    mods,        \* the registry, in insertion order: records of class Mod
    mi,          \* index in mods of the mod whose declarations are validated
    di,          \* declarations of that mod already validated
    cur,         \* flag, dep_name, op, version of the current declaration
    error,       \* the exception that ended update(), or NoError
    load_order,  \* the computed load order
    data,        \* {<<mod, stage>>} found to have a script
    lua,         \* the Lua runtime: search path, module caches, globals
    calls,       \* the calls made on the Lua runtime, in order
    base_path,   \* package.path captured after core was loaded
    si,          \* index in stages of the current stage
    li,          \* index in load_order of the current mod
    installed,   \* the <<name, kind>> of the mods found in factorio-mods so far
    mod_settings_dat,  \* the bytes of factorio-mods/mod-settings.dat
    tell,              \* the position of the stream over them
    mod_settings,      \* the document get_mod_settings made of them
    call,        \* the last call made on an entity class or object
    entity,      \* the entity object the script holds, or NoEntity
    warned,      \* the warnings that call issued, in order
    raised       \* the exception that call raised, or None

vars == <<pc, mod_list, listed, mods, mi, di, cur, error, load_order, data,
          lua, calls, base_path, si, li, installed, mod_settings_dat,
          tell, mod_settings, call, entity, warned, raised>>

\* the variables of update() and of get_mod_settings
update_vars == <<pc, mod_list, listed, mods, mi, di, cur, error, load_order,
                 data, lua, calls, base_path, si, li, installed,
                 mod_settings_dat, tell, mod_settings>>

\* Python values handed to constructors and setters: the type, and the
\* number or the text of the value where it has one.
PyNone == [t |-> "NoneType", n |-> 0, s |-> ""]

PyBool(b) == [t |-> "bool", n |-> IF b THEN 1 ELSE 0, s |-> ""]

PyInt(n) == [t |-> "int", n |-> n, s |-> ""]

\* the float n + 0.5
PyFloat(n) == [t |-> "float", n |-> n, s |-> ""]

PyStr(s) == [t |-> "str", n |-> 0, s |-> s]

\* the list []
PyList == [t |-> "list", n |-> 0, s |-> ""]

\* an attribute the class does not have
NoAttr == [t |-> "unset", n |-> 0, s |-> ""]

NoCall == [fn |-> None, cls |-> None, name |-> None, kwargs |-> <<>>]

NoEntity == [cls |-> None, name |-> None, unused_args |-> <<>>,
             control_behavior |-> {}, temperature |-> NoAttr, mode |-> NoAttr]

NoError == [type |-> None, args |-> <<>>]

\* Python values of the settings document: None, bool, float (its 8 bytes),
\* str (its code points), list (its items), dict (its <<key, value>> pairs
\* in insertion order).
NoneValue == [t |-> "None", v |-> <<>>]

\* `mod_settings = {}`
EmptyDict == [t |-> "dict", v |-> <<>>]

Raise(type, args) == [type |-> type, args |-> args]

\* class Mod (name, version, location, dependencies); info, files and data
\* are the inputs drawn where they are read.
Mod(name, version, archive, location) ==
    [name |-> name, version |-> version, archive |-> archive,
     location |-> location, dependencies |-> <<>>]

\* A location "./factorio-mods/<name>" (or "./factorio-data/<name>") is written
\* <name>: the names are unique over both directories.
core_mod == Mod("core", factorio_version, FALSE, "core")

base_mod == Mod("base", factorio_version, FALSE, "base")

\* stage files of the two synthetic mods
core_data == {<<"core", "data.lua">>}

base_data == {<<"base", "data.lua">>, <<"base", "data-updates.lua">>}

ModNames(reg) == {reg[i].name : i \in 1..Len(reg)}

\* mods[name]
ModOf(reg, name) == reg[CHOOSE i \in 1..Len(reg) : reg[i].name = name]

\* package.path of a fresh runtime; an entry "<dir>/?.lua" is written <dir>
DefaultPath == <<".">>

\* lupa.LuaRuntime(): search path, package.loaded, required_in_session, the
\* per-mod deletion table, and the globals update() binds
NewRuntime ==
    [path |-> DefaultPath, loaded |-> {}, session |-> {}, modstate |-> {},
     MOD_NAME |-> None, MOD_DIR |-> None, CURRENT_FILE |-> <<>>, settings |-> None]

\* mod-list.json present: every candidate has an entry; absent: {"base": True}
ModLists ==
    {[n \in {"base"} |-> TRUE]}
    \cup {[n \in Candidates \cup {"base"} |-> IF n = "base" THEN TRUE ELSE n \in en] :
            en \in SUBSET Candidates}

Init ==
    /\ pc = "discover"
    /\ mod_list \in ModLists
    /\ listed = {}
    /\ mods = <<base_mod>>
    /\ mi = 0
    /\ di = 0
    /\ cur = NoDecl
    /\ error = NoError
    /\ load_order = <<>>
    /\ data = core_data \cup base_data
    /\ lua = NewRuntime
    /\ calls = <<>>
    /\ base_path = <<>>
    /\ si = 0
    /\ li = 0
    /\ installed = {}
    /\ mod_settings_dat = <<>>
    /\ tell = 0
    /\ mod_settings = EmptyDict
    /\ call = NoCall
    /\ entity = NoEntity
    /\ warned = <<>>
    /\ raised = None

\* Variant of Fail: the error is noted and update() goes on.
FailAndGoOn(e) ==
    /\ pc' = pc
    /\ error' = e

Fail(e) ==
    /\ pc' = "failed"
    /\ error' = e

\* ---------------------------------------------------------------- discovery
\* Variant of Lookup: a mod without an entry counts as disabled.
LookupOrDisabled(ml, name) ==
    IF name \in DOMAIN ml /\ ml[name] THEN "True" ELSE "False"

\* mod_list[mod_name]: "True", "False", or the KeyError of a missing entry
Lookup(ml, name) ==
    IF name \notin DOMAIN ml THEN "KeyError"
    ELSE IF ml[name] THEN "True" ELSE "False"

\* One iteration of `for mod_obj in os.listdir("factorio-mods")`. The entry
\* is an archive ("zip"), an archive for which one of the two asserts on its
\* info.json fails ("zip_assert"), a folder ("dir") or a regular file.
Discover(name, kind) ==
    /\ pc = "discover"
    /\ name \notin listed
    /\ listed' = listed \cup {name}
    /\ installed' = IF kind = "file" THEN installed ELSE installed \cup {<<name, kind>>}
    /\ UNCHANGED <<call, entity, warned, raised, mod_settings_dat, tell, mod_settings, mod_list, mi, di, cur, load_order,
                   data, lua, calls, base_path, si, li>>
    /\ IF kind = "file" THEN UNCHANGED <<pc, error, mods>>
       ELSE IF kind = "dir" THEN Fail(Raise("Exception", <<"Not ready yet!">>)) /\ UNCHANGED mods
       ELSE IF kind = "zip_assert" THEN Fail(Raise("AssertionError", <<>>)) /\ UNCHANGED mods
       ELSE IF Lookup(mod_list, name) = "KeyError"
            THEN Fail(Raise("KeyError", <<name>>)) /\ UNCHANGED mods
       ELSE IF Lookup(mod_list, name) = "False" THEN UNCHANGED <<pc, error, mods>>
       ELSE /\ mods' = Append(mods, Mod(name, ModInfoVersion(name), TRUE, name))
            /\ UNCHANGED <<pc, error>>

\* os.listdir is exhausted: on to `for mod_name, mod in mods.items()`.
DiscoverDone ==
    /\ pc = "discover"
    /\ pc' = "resolve"
    /\ mi' = 1
    /\ di' = 0
    /\ UNCHANGED <<call, entity, warned, raised, installed, mod_settings_dat, tell, mod_settings, mod_list, listed, mods, cur, error, load_order, data, lua, calls, base_path, si, li>>

\* --------------------------------------------------------------- validation
\* `dep_name in mods`
Present(reg, dep_name) == dep_name \in ModNames(reg)

\* Variant of MissingModError: the payload is the declared version.
MissingModErrorOfVersion(d) == Raise("MissingModError", <<d.version>>)

\* `raise MissingModError(dep_name)`
MissingModError(d) == Raise("MissingModError", <<d.dep_name>>)

\* `raise IncompatableModError(mod_name)`
IncompatableModError(mod_name) == Raise("IncompatableModError", <<mod_name>>)

\* `raise IncorrectModVersionError(version)`
IncorrectModVersionError(d) == Raise("IncorrectModVersionError", <<d.version>>)

\* The version check of one declaration whose target is present.
VersionOk(reg, d) ==
    EvalCompare(version_string_2_tuple(ModOf(reg, d.dep_name).version), d.op,
                version_string_2_tuple(d.version))

\* Variant of OptionalSkips: an optional declaration is never looked at.
OptionalSkipsAlways(reg, d) == d.flag = "?"

\* `elif flag == '?': if dep_name not in mods: continue`
OptionalSkips(reg, d) == d.flag = "?" /\ ~Present(reg, d.dep_name)

\* Variant of LoadOrderOnly: '~' is not told from a required dependency.
LoadOrderOnlyNever(d) == FALSE

\* `if flag == '~': continue`
LoadOrderOnly(d) == d.flag = "~"

\* The body of `for dependency in mod.info["dependencies"]` for the groups d
\* of one declaration of mod_name: what the iteration ends with.
\*   [do |-> "continue"], [do |-> "raise", error |-> e], [do |-> "add"]
Validate(reg, mod_name, d) ==
    IF d = NoMatch THEN
        [do |-> "raise",
         error |-> Raise("TypeError", <<"'NoneType' object is not subscriptable">>)]
    ELSE IF d.flag = "!" THEN
        IF Present(reg, d.dep_name)
        THEN [do |-> "raise", error |-> IncompatableModError(mod_name)]
        ELSE [do |-> "continue", error |-> NoError]
    ELSE IF OptionalSkips(reg, d) THEN
        [do |-> "continue", error |-> NoError]
    ELSE IF ~Present(reg, d.dep_name) THEN
        [do |-> "raise", error |-> MissingModError(d)]
    ELSE IF LoadOrderOnly(d) THEN
        [do |-> "continue", error |-> NoError]
    ELSE IF d.version # None /\ d.op \notin {"==", ">=", "<=", ">", "<"} THEN
        [do |-> "raise", error |-> Raise("AssertionError", <<"incorrect operation">>)]
    ELSE IF d.version # None /\ ~VersionOk(reg, d) THEN
        [do |-> "raise", error |-> IncorrectModVersionError(d)]
    ELSE [do |-> "add", error |-> NoError]

\* Mod.add_dependency on mods[mi]
AddDependency(reg, i, dep_name) ==
    [reg EXCEPT ![i].dependencies = Append(@, dep_name)]

\* One iteration of the inner loop of "Create the dependency tree".
ResolveDependency(d) ==
    /\ pc = "resolve"
    /\ mi <= Len(mods)
    /\ mods[mi].name \notin {"base", "core"}
    /\ di < MaxDeps
    /\ cur' = d
    /\ di' = di + 1
    /\ LET r == Validate(mods, mods[mi].name, d)
       IN  /\ IF r.do = "raise" THEN Fail(r.error) ELSE UNCHANGED <<pc, error>>
           /\ mods' = IF r.do = "add" THEN AddDependency(mods, mi, d.dep_name) ELSE mods
    /\ UNCHANGED <<call, entity, warned, raised, installed, mod_settings_dat, tell, mod_settings, mod_list, listed, mi, load_order, data, lua, calls, base_path, si, li>>

\* The declarations of mods[mi] are exhausted (or the mod is base): next mod.
NextMod ==
    /\ pc = "resolve"
    /\ mi <= Len(mods)
    /\ mi' = mi + 1
    /\ di' = 0
    /\ cur' = NoDecl
    /\ UNCHANGED <<call, entity, warned, raised, installed, mod_settings_dat, tell, mod_settings, pc, mod_list, listed, mods, error, load_order, data, lua, calls,
                   base_path, si, li>>

\* --------------------------------------------------------------- load order
Max(a, b) == IF a < b THEN b ELSE a

RecursionError == -1

\* Mod.get_depth, with the interpreter's recursion limit as `fuel`: the
\* frames left.  RecursionError when they run out.
RECURSIVE get_depth(_, _, _)
RECURSIVE DepthLoop(_, _, _, _, _)
DepthLoop(reg, deps, k, depth, fuel) ==
    IF k > Len(deps) THEN depth
    ELSE LET r == get_depth(reg, deps[k], fuel - 1)
         IN  IF r = RecursionError THEN RecursionError
             ELSE DepthLoop(reg, deps, k + 1, Max(depth, depth + r), fuel)

\* Variant of get_depth: the dependencies are not counted.
get_depth_flat(reg, name, fuel) == 1

get_depth(reg, name, fuel) ==
    IF fuel = 0 THEN RecursionError
    ELSE DepthLoop(reg, ModOf(reg, name).dependencies, 1, 1, fuel)

\* key = lambda x: (x[1].get_depth(), x[1].name)
SortKey(reg, i) ==
    [depth |-> get_depth(reg, reg[i].name, MaxRecursion), name |-> reg[i].name]

\* Variant of KeyLt: the name does not break ties.
KeyLtDepthOnly(a, b) == a.depth < b.depth

\* Python's `<` on the (int, str) key tuples
KeyLt(a, b) ==
    \/ a.depth < b.depth
    \/ a.depth = b.depth /\ NameLt(a.name, b.name)

\* sorted(): stable, an element goes before the first one greater than it
RECURSIVE InsertByKey(_, _, _)
InsertByKey(sorted, x, k) ==
    IF k > Len(sorted) THEN Append(sorted, x)
    ELSE IF KeyLt(x, sorted[k])
         THEN SubSeq(sorted, 1, k - 1) \o <<x>> \o SubSeq(sorted, k, Len(sorted))
         ELSE InsertByKey(sorted, x, k + 1)

RECURSIVE SortedKeys(_, _)
SortedKeys(reg, n) ==
    IF n = 0 THEN <<>>
    ELSE InsertByKey(SortedKeys(reg, n - 1), SortKey(reg, n), 1)

\* [k[0] for k in sorted(mods.items(), key = ...)]
LoadOrderOf(reg) ==
    LET s == SortedKeys(reg, Len(reg)) IN [i \in 1..Len(s) |-> s[i].name]

DepthFails(reg) ==
    \E i \in 1..Len(reg) : get_depth(reg, reg[i].name, MaxRecursion) = RecursionError

\* "Get load order"
ComputeLoadOrder ==
    /\ pc = "resolve"
    /\ mi > Len(mods)
    /\ IF DepthFails(mods)
       THEN Fail(Raise("RecursionError", <<>>)) /\ UNCHANGED load_order
       ELSE /\ load_order' = LoadOrderOf(mods)
            /\ pc' = "setup"
            /\ UNCHANGED error
    /\ UNCHANGED <<call, entity, warned, raised, installed, mod_settings_dat, tell, mod_settings, mod_list, listed, mods, mi, di, cur, data, lua, calls, base_path, si, li>>

\* ------------------------------------------------------------------ engine
\* One call made on the Lua runtime; ok = FALSE when it raised.
Call(fn, args, ok) == [fn |-> fn, args |-> args, ok |-> ok]

\* The helpers of compatability.lua update() fetches from the runtime.
ADD_PATH(rt, path) == [rt EXCEPT !.path = Append(@, path)]

SET_PATH(rt, path) == [rt EXCEPT !.path = path]

UNLOAD_SESSION_CACHE(rt) == [rt EXCEPT !.loaded = @ \ rt.session]

UNLOAD_ENTIRE_CACHE(rt) == [rt EXCEPT !.loaded = {}]

RESET_MOD_STATE(rt) == [rt EXCEPT !.modstate = {}]

\* lua.execute("required_in_session = {}")
ClearSession(rt) == [rt EXCEPT !.session = {}]

\* What a stage script leaves in the runtime: its modules in package.loaded
\* and in required_in_session, its entries in the deletion table.
RunScript(rt, name) ==
    [rt EXCEPT !.loaded = @ \cup {name}, !.session = @ \cup {name},
               !.modstate = @ \cup {name}]

\* load_stage up to lua.execute: the globals and the search path
BindStage(rt, mod, stage) ==
    ADD_PATH([rt EXCEPT !.MOD_NAME = mod.name, !.MOD_DIR = mod.location,
                        !.CURRENT_FILE = <<mod.location, stage>>],
             mod.location)

\* load_stage(lua, mod, stage); ok = FALSE when lua.execute raises
load_stage(rt, mod, stage, ok) ==
    IF ok THEN RunScript(BindStage(rt, mod, stage), mod.name)
    ELSE BindStage(rt, mod, stage)

load_stage_calls(mod, stage, ok) ==
    << Call("set_global", <<"MOD", mod.name>>, TRUE),
       Call("set_global", <<"MOD_NAME", mod.name>>, TRUE),
       Call("set_global", <<"MOD_DIR", mod.location>>, TRUE),
       Call("set_global", <<"CURRENT_FILE", mod.location, stage>>, TRUE),
       Call("ADD_PATH", <<mod.location>>, TRUE),
       Call("execute", <<"script", mod.name, stage>>, ok) >>

\* Variant of Propagates: the exception is swallowed.
Swallowed(ok) == FALSE

\* An exception of lua.execute is caught nowhere in update().
Propagates(ok) == ~ok

\* What get_mod_settings ends with: the document, no file, or one of the
\* exceptions of the decoder.
DecodeErrors == {"AssertionError", "struct.error", "TypeError", "UnicodeDecodeError"}

SettingsOutcomes == {"document", "FileNotFoundError"} \cup DecodeErrors

\* The two executions that come before get_mod_settings
util_calls ==
    << Call("execute", <<"file", "util.lua">>, TRUE),
       Call("execute", <<"file", "dataloader.lua">>, TRUE) >>

\* Variant of bind_calls: the settings are not bound.
bind_calls_without_settings ==
    << Call("set_global", <<"python_mods">>, TRUE),
       Call("set_global", <<"python_require">>, TRUE),
       Call("execute", <<"file", "compatability.lua">>, TRUE) >>

\* The globals bound once get_mod_settings is over, and compatability.lua
bind_calls ==
    << Call("set_global", <<"settings">>, TRUE),
       Call("set_global", <<"python_mods">>, TRUE),
       Call("set_global", <<"python_require">>, TRUE),
       Call("execute", <<"file", "compatability.lua">>, TRUE) >>

\* "Setup emulated factorio environment" up to the helpers being fetched.
\* Only FileNotFoundError is caught around get_mod_settings.
SetupEngine(settings) ==
    /\ pc = "setup"
    /\ IF settings \in DecodeErrors
       THEN /\ Fail(Raise(settings, <<>>))
            /\ lua' = NewRuntime
            /\ calls' = util_calls
       ELSE /\ pc' = "core"
            /\ UNCHANGED error
            /\ lua' = [NewRuntime EXCEPT !.settings =
                          IF settings = "document" THEN "document" ELSE "empty"]
            /\ calls' = util_calls \o bind_calls
    /\ UNCHANGED <<call, entity, warned, raised, installed, mod_settings_dat, tell, mod_settings, mod_list, listed, mods, mi, di, cur, load_order, data, base_path, si, li>>

\* What follows core's data.lua
after_core_calls ==
    << Call("UNLOAD_SESSION_CACHE", <<>>, TRUE),
       Call("execute", <<"chunk", "required_in_session = {}">>, TRUE) >>

\* "Setup the `core` module" up to base_path being captured.
LoadCore(ok) ==
    /\ pc = "core"
    /\ LET rt0 == ADD_PATH(lua, "core/lualib")
           c0 == calls \o << Call("ADD_PATH", <<"core/lualib">>, TRUE) >>
                       \o load_stage_calls(core_mod, "data.lua", ok)
       IN  IF Propagates(ok)
           THEN /\ Fail(Raise("LuaError", <<"core", "data.lua">>))
                /\ lua' = load_stage(rt0, core_mod, "data.lua", ok)
                /\ calls' = c0
                /\ UNCHANGED <<base_path, si, li>>
           ELSE /\ lua' = ClearSession(UNLOAD_SESSION_CACHE(
                              load_stage(rt0, core_mod, "data.lua", ok)))
                /\ calls' = c0 \o after_core_calls
                /\ base_path' = lua'.path
                /\ pc' = "sweep"
                /\ si' = 1
                /\ li' = 1
                /\ UNCHANGED error
    /\ UNCHANGED <<call, entity, warned, raised, installed, mod_settings_dat, tell, mod_settings, mod_list, listed, mods, mi, di, cur, load_order, data>>

\* ------------------------------------------------------------------- sweep
\* Variant of CurrentMod: the load order iterated from its end.
CurrentModReversed(order, reg, i) == ModOf(reg, order[Len(order) + 1 - i])

\* mods[load_order[i]] of `for i, mod_name in enumerate(load_order)`
CurrentMod(order, reg, i) == ModOf(reg, order[i])

\* Variant of after_script_calls: the deletion table is not reset.
after_script_calls_no_reset ==
    << Call("UNLOAD_ENTIRE_CACHE", <<>>, TRUE) >>

\* The calls that follow a mod's stage script
after_script_calls ==
    << Call("UNLOAD_ENTIRE_CACHE", <<>>, TRUE),
       Call("RESET_MOD_STATE", <<>>, TRUE) >>

\* Variant of skip_calls: the search path is not reset.
skip_calls_none(path) == << >>

\* Variant of skip_calls: the cache is dropped for a skipped mod too.
skip_calls_unloading(path) ==
    << Call("SET_PATH", path, TRUE), Call("UNLOAD_ENTIRE_CACHE", <<>>, TRUE) >>

\* The calls of an iteration whose mod has no script for the stage
skip_calls(path) == << Call("SET_PATH", path, TRUE) >>

\* One iteration of the inner loop of the sweep, for stages[si] and
\* load_order[li]; has: `stage in mod.data`; ok: lua.execute returned.
LoadMod(has, ok) ==
    /\ pc = "sweep"
    /\ LET mod == CurrentMod(load_order, mods, li)
           stage == stages[si]
           rt1 == SET_PATH(lua, base_path)
           last == li = Len(load_order)
       IN  /\ mod.name = "base" => (has <=> <<"base", stage>> \in base_data)
           /\ ~has => ok
           /\ data' = IF has THEN data \cup {<<mod.name, stage>>} ELSE data
           /\ IF ~has
              THEN /\ lua' = rt1
                   /\ calls' = calls \o skip_calls(base_path)
              ELSE IF Propagates(ok)
              THEN /\ lua' = load_stage(rt1, mod, stage, ok)
                   /\ calls' = calls \o skip_calls(base_path)
                                     \o load_stage_calls(mod, stage, ok)
              ELSE /\ lua' = RESET_MOD_STATE(UNLOAD_ENTIRE_CACHE(
                                 load_stage(rt1, mod, stage, ok)))
                   /\ calls' = calls \o skip_calls(base_path)
                                     \o load_stage_calls(mod, stage, ok)
                                     \o after_script_calls
           /\ IF has /\ Propagates(ok)
              THEN /\ Fail(Raise("LuaError", <<mod.name, stage>>))
                   /\ UNCHANGED <<si, li>>
              ELSE /\ UNCHANGED error
                   /\ li' = IF last THEN 1 ELSE li + 1
                   /\ si' = IF last THEN si + 1 ELSE si
                   /\ pc' = IF last /\ si = Len(stages) THEN "extract" ELSE "sweep"
    /\ UNCHANGED <<call, entity, warned, raised, installed, mod_settings_dat, tell, mod_settings, mod_list, listed, mods, mi, di, cur, load_order, base_path>>

\* The extract_* calls and extract_data.lua
Extract(ok) ==
    /\ pc = "extract"
    /\ calls' = Append(calls, Call("execute", <<"file", "extract_data.lua">>, ok))
    /\ IF Propagates(ok) THEN Fail(Raise("LuaError", <<"extract_data.lua">>))
       ELSE pc' = "done" /\ UNCHANGED error
    /\ UNCHANGED <<call, entity, warned, raised, installed, mod_settings_dat, tell, mod_settings, mod_list, listed, mods, mi, di, cur, load_order, data, lua,
                   base_path, si, li>>

\* ----------------------------------------------------------- specification
EntryKinds == {"zip", "zip_assert", "dir", "file"}

Next ==
    \/ \E name \in Candidates, kind \in EntryKinds : Discover(name, kind)
    \/ DiscoverDone
    \/ \E d \in Declarations \cup {NoMatch} : ResolveDependency(d)
    \/ NextMod
    \/ ComputeLoadOrder
    \/ \E settings \in SettingsOutcomes : SetupEngine(settings)
    \/ \E ok \in BOOLEAN : LoadCore(ok)
    \/ \E has \in BOOLEAN, ok \in BOOLEAN : LoadMod(has, ok)
    \/ \E ok \in BOOLEAN : Extract(ok)

Spec == Init /\ [][Next]_vars

\* ------------------------------------------------------- get_mod_settings
\* binary_stream.read(n): the next n bytes, fewer at the end of the stream
read(buf, pos, n) == SubSeq(buf, pos + 1, Min(pos + n, Len(buf)))

\* struct.unpack("<I", b) of four bytes
U32(b) == b[1] + 256 * b[2] + 65536 * b[3] + 16777216 * b[4]

\* A call that returned value with the stream at pos, and one that raised.
Returned(value, pos) == [ok |-> TRUE, value |-> value, pos |-> pos, error |-> None]

Raised(e, pos) == [ok |-> FALSE, value |-> NoneValue, pos |-> pos, error |-> e]

\* `binary_stream.read(length).decode()`: a byte above 127 stands for an
\* invalid UTF-8 sequence.
decode(buf, pos, length) ==
    LET b == read(buf, pos, length)
    IN  IF \E i \in 1..Len(b) : b[i] > 127
        THEN Raised("UnicodeDecodeError", pos + Len(b))
        ELSE Returned([t |-> "str", v |-> b], pos + Len(b))

\* Variant of IsExtended: the length byte is always the length.
IsExtendedNever(length) == FALSE

\* `if length == 255: # length is actually longer`
IsExtended(length) == length = 255

get_string(buf, pos) ==
    LET absent == read(buf, pos, 1)
        short == read(buf, pos + 1, 1)
        long == read(buf, pos + 2, 4)
    IN  IF Len(absent) # 1 THEN Raised("struct.error", pos + Len(absent))
        ELSE IF absent[1] # 0 THEN Returned(NoneValue, pos + 1)
        ELSE IF Len(short) # 1 THEN Raised("struct.error", pos + 1 + Len(short))
        ELSE IF ~IsExtended(short[1]) THEN decode(buf, pos + 2, short[1])
        ELSE IF Len(long) # 4 THEN Raised("struct.error", pos + 2 + Len(long))
        ELSE decode(buf, pos + 6, U32(long))

\* `out[name] = value`: a key already in the dict keeps its place
SetItem(out, name, value) ==
    IF \E i \in 1..Len(out) : out[i][1] = name
    THEN [i \in 1..Len(out) |-> IF out[i][1] = name THEN <<name, value>> ELSE out[i]]
    ELSE Append(out, <<name, value>>)

RECURSIVE get_data(_, _)
RECURSIVE DictionaryItems(_, _, _, _)

\* `for i in range(length)` of the Dictionary branch, n iterations to go
DictionaryItems(buf, pos, n, out) ==
    IF n = 0 THEN Returned([t |-> "dict", v |-> out], pos)
    ELSE LET name == get_string(buf, pos)
         IN  IF ~name.ok THEN name
             ELSE LET value == get_data(buf, name.pos)
                  IN  IF ~value.ok THEN value
                      ELSE DictionaryItems(buf, value.pos, n - 1,
                                           SetItem(out, name.value, value.value))

get_data(buf, pos) ==
    LET tag == read(buf, pos, 1)
        data_type == tag[1]
        p == pos + 1 + Len(read(buf, pos + 1, 1))
        b1 == read(buf, p, 1)
        b4 == read(buf, p, 4)
        b8 == read(buf, p, 8)
    IN  IF Len(tag) # 1 THEN Raised("struct.error", pos)
        ELSE IF data_type = 0 THEN Returned(NoneValue, p)
        ELSE IF data_type = 1 THEN
            IF Len(b1) # 1 THEN Raised("struct.error", p)
            ELSE Returned([t |-> "bool", v |-> <<IF b1[1] # 0 THEN 1 ELSE 0>>], p + 1)
        ELSE IF data_type = 2 THEN
            IF Len(b8) # 8 THEN Raised("struct.error", p + Len(b8))
            ELSE Returned([t |-> "float", v |-> b8], p + 8)
        ELSE IF data_type = 3 THEN get_string(buf, p)
        ELSE IF data_type = 4 THEN
            IF Len(b4) # 4 THEN Raised("struct.error", p + Len(b4))
            ELSE Raised("TypeError", p + 4)
        ELSE IF data_type = 5 THEN
            IF Len(b4) # 4 THEN Raised("struct.error", p + Len(b4))
            ELSE DictionaryItems(buf, p + 4, U32(b4), <<>>)
        ELSE Returned(NoneValue, p)

\* decode_version of the number struct.unpack("<Q", q) holds: its four 16-bit
\* components, the highest first
decode_version(q) ==
    << q[7] + 256 * q[8], q[5] + 256 * q[6], q[3] + 256 * q[4], q[1] + 256 * q[2] >>

\* version[::-1]
Reversed(t) == [i \in 1..Len(t) |-> t[Len(t) + 1 - i]]

\* __factorio_version_info__ of draftsman._factorio_version, as update()
\* wrote it
factorio_version_info == version_string_2_tuple(factorio_version)

\* The header of get_mod_settings, up to its assert.
header(buf) ==
    LET q == read(buf, 0, 8)
        flag == read(buf, 8, 1)
    IN  IF Len(q) # 8 THEN Raised("struct.error", Len(q))
        ELSE IF Len(flag) # 1 THEN Raised("struct.error", 8)
        ELSE IF ~(Reversed(decode_version(q)) = factorio_version_info /\ flag[1] = 0)
             THEN Raised("AssertionError", 9)
        ELSE Returned(NoneValue, 9)

\* The headers of a file of the application's version, of one with the
\* header flag set, of one of version 1.0.0.0, and of one with both.
GoodHeader == <<1, 0, 1, 0, 0, 0, 0, 0, 0>>

FlagHeader == <<1, 0, 1, 0, 0, 0, 0, 0, 1>>

VersionHeader == <<1, 0, 0, 0, 0, 0, 0, 0, 0>>

FlagVersionHeader == <<1, 0, 0, 0, 0, 0, 0, 0, 1>>

\* Encoded trees: None; True; 1.0; "ab"; the absent string; "ab" with the
\* long length form; {}; {"a": True, "b": None}; {"a": {"a": "b"}};
\* {"a": True, "a": False}; {"a": 1.0}.
WellFormedTrees ==
    { <<0, 0>>,
      <<1, 0, 1>>,
      <<2, 0, 0, 0, 0, 0, 0, 0, 240, 63>>,
      <<3, 0, 0, 2, 97, 98>>,
      <<3, 0, 1>>,
      <<3, 0, 0, 255, 2, 0, 0, 0, 97, 98>>,
      <<5, 0, 0, 0, 0, 0>>,
      <<5, 0, 2, 0, 0, 0, 0, 1, 97, 1, 0, 1, 0, 1, 98, 0, 0>>,
      <<5, 0, 1, 0, 0, 0, 0, 1, 97, 5, 0, 1, 0, 0, 0, 0, 1, 97, 3, 0, 0, 1, 98>>,
      <<5, 0, 2, 0, 0, 0, 0, 1, 97, 1, 0, 1, 0, 1, 97, 1, 0, 0>>,
      <<5, 0, 1, 0, 0, 0, 0, 1, 97, 2, 0, 0, 0, 0, 0, 0, 0, 240, 63>> }

\* Encoded lists: []; [None].
ListTrees == { <<4, 0, 0, 0, 0, 0>>, <<4, 0, 1, 0, 0, 0, 0, 0>> }

\* A string whose payload is not UTF-8.
UndecodableTrees == { <<3, 0, 0, 1, 200>> }

\* Trees with a node whose tag is none of 0..5: at the top, and as the value
\* of a dictionary entry.
UnknownTagTrees ==
    { <<6, 0>>,
      <<255, 0>>,
      <<5, 0, 1, 0, 0, 0, 0, 1, 97, 7, 0>>,
      <<5, 0, 2, 0, 0, 0, 0, 1, 97, 6, 0, 0, 1, 98, 1, 0, 1>> }

\* The byte lengths of the strings the model encodes.
StringLengths == {0, 1, 254, 255, 256, 70000}

\* A string of n ASCII letters.
Letters(n) == [i \in 1..n |-> 97 + (i % 26)]

Strings == {Letters(n) : n \in StringLengths}

\* The reference encoding of a string that is not absent: the flag, the
\* length in one byte below 255 and else 255 and four little-endian bytes,
\* and the payload.
encode_string(s) ==
    LET n == Len(s)
    IN  <<0>> \o (IF n < 255 THEN <<n>>
                  ELSE <<255, n % 256, (n \div 256) % 256, (n \div 65536) % 256,
                         n \div 16777216>>)
            \o s

\* The file whose tree is the String node of s.
StringBuffer(s) == GoodHeader \o <<3, 0>> \o encode_string(s)

\* The file whose tree is an absent String node, with bytes after it.
AbsentStringBuffer == GoodHeader \o <<3, 0, 1, 0, 2, 97, 98>>

StringBuffers == {StringBuffer(s) : s \in Strings} \cup {AbsentStringBuffer}

ListBuffers == {GoodHeader \o t : t \in ListTrees}

Prefixes(buf) == {SubSeq(buf, 1, n) : n \in 0..Len(buf)}

WellFormedBuffers == {GoodHeader \o t : t \in WellFormedTrees}

UnknownTagBuffers == {GoodHeader \o t : t \in UnknownTagTrees}

RejectedBuffers ==
    {h \o t : h \in {FlagHeader, VersionHeader, FlagVersionHeader},
              t \in {<<0, 0>>, <<5, 0, 0, 0, 0, 0>>}}

\* The contents of mod-settings.dat the model reads.
Buffers ==
    UNION {Prefixes(b) : b \in WellFormedBuffers}
    \cup UnknownTagBuffers
    \cup ListBuffers
    \cup {GoodHeader \o t : t \in UndecodableTrees}
    \cup StringBuffers
    \cup RejectedBuffers

InitDecode ==
    /\ pc = "open"
    /\ mod_settings_dat \in Buffers
    /\ tell = 0
    /\ mod_settings = EmptyDict
    /\ mod_list = [n \in {"base"} |-> TRUE]
    /\ listed = {}
    /\ mods = <<base_mod>>
    /\ mi = 0
    /\ di = 0
    /\ cur = NoDecl
    /\ error = NoError
    /\ load_order = <<>>
    /\ data = core_data \cup base_data
    /\ lua = NewRuntime
    /\ calls = <<>>
    /\ base_path = <<>>
    /\ si = 0
    /\ li = 0
    /\ installed = {}
    /\ call = NoCall
    /\ entity = NoEntity
    /\ warned = <<>>
    /\ raised = None

\* get_mod_settings from `open` to the assert on the header
ReadHeader ==
    /\ pc = "open"
    /\ LET r == header(mod_settings_dat)
       IN  /\ tell' = r.pos
           /\ IF r.ok THEN pc' = "tree" /\ UNCHANGED error
              ELSE Fail(Raise(r.error, <<>>))
    /\ UNCHANGED <<call, entity, warned, raised, installed, mod_settings_dat, mod_settings, mod_list, listed, mods, mi,
                   di, cur, load_order, data, lua, calls, base_path, si, li>>

\* `mod_settings = get_data(mod_settings_dat)` and the return
ReadTree ==
    /\ pc = "tree"
    /\ LET r == get_data(mod_settings_dat, tell)
       IN  /\ tell' = r.pos
           /\ IF r.ok THEN pc' = "returned" /\ mod_settings' = r.value /\ UNCHANGED error
              ELSE Fail(Raise(r.error, <<>>)) /\ UNCHANGED mod_settings
    /\ UNCHANGED <<call, entity, warned, raised, installed, mod_settings_dat, mod_list, listed, mods, mi,
                   di, cur, load_order, data, lua, calls, base_path, si, li>>

NextDecode == ReadHeader \/ ReadTree

SpecDecode == InitDecode /\ [][NextDecode]_vars

\* ================================================== draftsman entities
\* isinstance(value, int): bool is a subclass of int
isinstance_int(value) == value.t \in {"int", "bool"}

\* hash(value) is defined
Hashable(value) == value.t # "list"

\* The classes draftsman/warning.py defines.
warning_classes ==
    {"DraftsmanWarning", "ValueWarning", "DirectionWarning", "BarIndexWarning",
     "ConnectionDistanceWarning", "ConnectionSideWarning",
     "RailAlignmentWarning", "ModuleLimitationWarning",
     "ModuleCapacityWarning", "VolumeWarning", "HiddenEntityWarning",
     "OverlappingEntitiesWarning"}

Classes == {"Container", "Lab", "Pump", "RailSignal", "HeatInterface"}

\* `from draftsman.warning import ...` at the head of the class's module
imports_from_warning(cls) ==
    IF cls = "HeatInterface" THEN {"DraftsmanWarning", "TemperatureRangeWarning"}
    ELSE {"DraftsmanWarning"}

\* The import of the class's module: a name draftsman.warning does not define
\* raises ImportError and the module is not loaded.
import_module(cls) ==
    IF imports_from_warning(cls) \subseteq warning_classes THEN None
    ELSE "ImportError"

\* containers, labs, pumps, rail_signals, heat_interfaces of
\* draftsman.data.entities
similar_entities(cls) ==
    CASE cls = "Container" ->
           <<"wooden-chest", "iron-chest", "steel-chest",
             "logistic-chest-active-provider", "logistic-chest-passive-provider">>
      [] cls = "Lab" -> <<"lab">>
      [] cls = "Pump" -> <<"pump">>
      [] cls = "RailSignal" -> <<"rail-signal">>
      [] cls = "HeatInterface" -> <<"heat-interface">>

\* the greatest number of keyword arguments of one constructor call
MaxKwargs == 2

Keywords == {"invalid_keyword", "position", "temperature", "mode"}

KeywordValue(k) ==
    CASE k = "invalid_keyword" -> PyInt(5)
      [] k = "position" -> PyList
      [] k = "temperature" -> PyInt(2000)
      [] k = "mode" -> PyStr("exactly")

Distinct(seq) == \A i, j \in 1..Len(seq) : seq[i] = seq[j] => i = j

KeywordOrders ==
    UNION {{ks \in [1..n -> Keywords] : Distinct(ks)} : n \in 0..MaxKwargs}

\* **kwargs: <<keyword, value>> in the order of the call
Kwargs == {[i \in 1..Len(ks) |-> <<ks[i], KeywordValue(ks[i])>>] : ks \in KeywordOrders}

HasKey(d, k) == \E i \in 1..Len(d) : d[i][1] = k

GetItem(d, k) == d[CHOOSE i \in 1..Len(d) : d[i][1] = k][2]

\* d.pop(k) of a dict kept in insertion order
Pop(d, k) == SelectSeq(d, LAMBDA kv : kv[1] # k)

\* the keywords Entity.__init__ itself takes
EntityKeywords == {"position"}

Returns(self, warnings) == [self |-> self, raised |-> None, warned |-> warnings]

Raises(self, e, warnings) == [self |-> self, raised |-> e, warned |-> warnings]

\* Entity.__init__(name, similar_entities, **kwargs): the name is checked
\* against the class's entities and the keywords nobody took are kept in
\* unused_args.
Entity__init__(cls, name, kwargs) ==
    IF name \notin SeqRange(similar_entities(cls))
    THEN Raises(NoEntity, "InvalidEntityError", <<>>)
    ELSE Returns([cls |-> cls,
                  name |-> name,
                  unused_args |-> SelectSeq(kwargs, LAMBDA kv : kv[1] \notin EntityKeywords),
                  control_behavior |-> {},
                  temperature |-> NoAttr,
                  mode |-> NoAttr],
                 <<>>)

Warning(category, arg) == [category |-> category, arg |-> arg]

\* `for unused_arg in self.unused_args: warnings.warn(..., DraftsmanWarning)`
warn_unused(self) ==
    [i \in 1..Len(self.unused_args) |-> Warning("DraftsmanWarning", self.unused_args[i][1])]

\* Container.__init__, and Lab, Pump and RailSignal as it
Container__init__(cls, name, kwargs) ==
    LET e == Entity__init__(cls, name, kwargs)
    IN  IF e.raised # None THEN e
        ELSE Returns(e.self, warn_unused(e.self))

\* HeatInterface.temperature, the setter
temperature_setter(self, value) ==
    IF value = PyNone
    THEN Returns([self EXCEPT !.temperature = value], <<>>)
    ELSE IF isinstance_int(value)
    THEN Returns([self EXCEPT !.temperature = value],
                 IF ~(0 <= value.n /\ value.n <= 1000)
                 THEN <<Warning("TemperatureRangeWarning", "temperature")>>
                 ELSE <<>>)
    ELSE Raises(self, "TypeError", <<>>)

Modes == {PyStr("at-least"), PyStr("at-most"), PyStr("exactly"), PyStr("add"),
          PyStr("remove"), PyNone}

\* HeatInterface.mode, the setter: `value in {...}` hashes the value
mode_setter(self, value) ==
    IF ~Hashable(value) THEN Raises(self, "TypeError", <<>>)
    ELSE IF value \in Modes THEN Returns([self EXCEPT !.mode = value], <<>>)
    ELSE Raises(self, "InvalidModeError", <<>>)

\* HeatInterface.__init__
HeatInterface__init__(cls, name, kwargs) ==
    LET e == Entity__init__(cls, name, kwargs)
        t0 == temperature_setter(e.self, PyInt(0))
        t1 == IF HasKey(kwargs, "temperature")
              THEN temperature_setter(t0.self, GetItem(kwargs, "temperature"))
              ELSE t0
        t2 == [t1.self EXCEPT !.unused_args =
                  IF HasKey(kwargs, "temperature") THEN Pop(@, "temperature") ELSE @]
        m0 == mode_setter(t2, PyStr("at-least"))
        m1 == IF HasKey(kwargs, "mode")
              THEN mode_setter(m0.self, GetItem(kwargs, "mode"))
              ELSE m0
        m2 == [m1.self EXCEPT !.unused_args =
                  IF HasKey(kwargs, "mode") THEN Pop(@, "mode") ELSE @]
    IN  IF e.raised # None THEN e
        ELSE IF t1.raised # None THEN Raises(NoEntity, t1.raised, <<>>)
        ELSE IF m1.raised # None THEN Raises(NoEntity, m1.raised, t1.warned)
        ELSE Returns(m2, t1.warned \o warn_unused(m2))

\* signatures.BOOLEAN.validate(value)
BOOLEAN_validate(value) == IF value.t = "bool" THEN None ELSE "SchemaError"

\* dict[k] = v and dict.pop(k, None) on a dict held as its items
SetKey(d, k, v) == {kv \in d : kv[1] # k} \cup {<<k, v>>}

PopKey(d, k) == {kv \in d : kv[1] # k}

\* Variant of set_read_signal: the value goes under the key of the
\* enable/disable setter.
set_read_signal_close_key(self, value) ==
    IF value = PyNone
    THEN Returns([self EXCEPT !.control_behavior = PopKey(@, "circuit_close_signal")], <<>>)
    ELSE IF BOOLEAN_validate(value) # None
    THEN Raises(self, BOOLEAN_validate(value), <<>>)
    ELSE Returns([self EXCEPT !.control_behavior = SetKey(@, "circuit_close_signal", value)], <<>>)

\* RailSignal.set_read_signal
set_read_signal(self, value) ==
    IF value = PyNone
    THEN Returns([self EXCEPT !.control_behavior = PopKey(@, "circuit_read_signal")], <<>>)
    ELSE IF BOOLEAN_validate(value) # None
    THEN Raises(self, BOOLEAN_validate(value), <<>>)
    ELSE Returns([self EXCEPT !.control_behavior = SetKey(@, "circuit_read_signal", value)], <<>>)

\* RailSignal.set_enable_disable
set_enable_disable(self, value) ==
    IF value = PyNone
    THEN Returns([self EXCEPT !.control_behavior = PopKey(@, "circuit_close_signal")], <<>>)
    ELSE IF BOOLEAN_validate(value) # None
    THEN Raises(self, BOOLEAN_validate(value), <<>>)
    ELSE Returns([self EXCEPT !.control_behavior = SetKey(@, "circuit_close_signal", value)], <<>>)

\* the values the script hands to the two setters
SetterValues == {PyNone, PyBool(TRUE), PyBool(FALSE), PyStr("incorrect"), PyInt(1)}

InvalidName == "this is not an entity"

\* the name and keywords of one constructor call
ConstructorCalls(cls) ==
    {<<similar_entities(cls)[1], kw>> : kw \in Kwargs} \cup {<<InvalidName, <<>> >>}

InitEntity ==
    /\ pc = "script"
    /\ mod_list = [n \in {"base"} |-> TRUE]
    /\ listed = {}
    /\ mods = <<base_mod>>
    /\ mi = 0
    /\ di = 0
    /\ cur = NoDecl
    /\ error = NoError
    /\ load_order = <<>>
    /\ data = core_data \cup base_data
    /\ lua = NewRuntime
    /\ calls = <<>>
    /\ base_path = <<>>
    /\ si = 0
    /\ li = 0
    /\ installed = {}
    /\ mod_settings_dat = <<>>
    /\ tell = 0
    /\ mod_settings = EmptyDict
    /\ call = NoCall
    /\ entity = NoEntity
    /\ warned = <<>>
    /\ raised = None

\* the outcome r of a call that leaves the script's object as it is when it raises
Outcome(r) ==
    /\ raised' = r.raised
    /\ warned' = r.warned
    /\ entity' = IF r.raised = None THEN r.self ELSE entity

\* `from draftsman.prototypes.<module> import <cls>; entity = <cls>(name, **kwargs)`
Construct(cls, name, kwargs) ==
    /\ call' = [fn |-> "__init__", cls |-> cls, name |-> name, kwargs |-> kwargs]
    /\ Outcome(IF import_module(cls) # None
               THEN Raises(NoEntity, import_module(cls), <<>>)
               ELSE IF cls = "HeatInterface"
               THEN HeatInterface__init__(cls, name, kwargs)
               ELSE Container__init__(cls, name, kwargs))
    /\ UNCHANGED update_vars

\* `entity.set_read_signal(value)`
SetReadSignal(value) ==
    /\ entity.cls = "RailSignal"
    /\ call' = [fn |-> "set_read_signal", cls |-> entity.cls, name |-> entity.name,
                kwargs |-> << <<"value", value>> >>]
    /\ Outcome(set_read_signal(entity, value))
    /\ UNCHANGED update_vars

\* `entity.set_enable_disable(value)`
SetEnableDisable(value) ==
    /\ entity.cls = "RailSignal"
    /\ call' = [fn |-> "set_enable_disable", cls |-> entity.cls, name |-> entity.name,
                kwargs |-> << <<"value", value>> >>]
    /\ Outcome(set_enable_disable(entity, value))
    /\ UNCHANGED update_vars

NextEntity ==
    \/ \E cls \in Classes : \E c \in ConstructorCalls(cls) : Construct(cls, c[1], c[2])
    \/ \E value \in SetterValues : SetReadSignal(value)
    \/ \E value \in SetterValues : SetEnableDisable(value)

SpecEntity == InitEntity /\ [][NextEntity]_vars

\* ============================================================ the claims
IsScript(c) == c.fn = "execute" /\ c.args[1] = "script"

\* The executions of stage scripts the engine observed, in order.
ScriptExecs == SelectSeq(calls, IsScript)

StageIndex(stage) == CHOOSE i \in 1..Len(stages) : stages[i] = stage

\* core is loaded before the sweep; the others at their place in load_order
OrderIndex(name) ==
    IF name = "core" THEN 0
    ELSE CHOOSE i \in 1..Len(load_order) : load_order[i] = name

ExecBefore(a, b) ==
    \/ StageIndex(a.args[3]) < StageIndex(b.args[3])
    \/ /\ StageIndex(a.args[3]) = StageIndex(b.args[3])
       /\ OrderIndex(a.args[2]) < OrderIndex(b.args[2])

\* C1: the engine observes the stage scripts in (stage, position in load
\* order) order, each declared (stage, mod) pair at most once and never an
\* undeclared one; when the sweep has completed, every declared pair of core
\* and of the mods of the load order was executed exactly once.
C1_StageModOrder ==
    LET ex == ScriptExecs
    IN  /\ \A i, j \in 1..Len(ex) : i < j => ExecBefore(ex[i], ex[j])
        /\ \A i \in 1..Len(ex) : <<ex[i].args[2], ex[i].args[3]>> \in data
        /\ pc \in {"extract", "done"} =>
              \A p \in data :
                 Cardinality({i \in 1..Len(ex) :
                                 ex[i].args[2] = p[1] /\ ex[i].args[3] = p[2]}) = 1

C1_Witness ==
    /\ pc = "done"
    /\ Len(load_order) = 3
    /\ <<load_order[3], "data.lua">> \in data
    /\ <<load_order[3], "data-updates.lua">> \notin data
    /\ <<load_order[1], "data-final-fixes.lua">> \in data
    /\ <<load_order[2], "data-updates.lua">> \in data

\* C2 as claimed: every stage script execution that returns, core's
\* included, is immediately followed by UNLOAD_ENTIRE_CACHE and then by
\* RESET_MOD_STATE.
C2_Original ==
    \A i \in 1..Len(calls) :
        (IsScript(calls[i]) /\ calls[i].ok) =>
            /\ i + 2 <= Len(calls)
            /\ calls[i + 1].fn = "UNLOAD_ENTIRE_CACHE"
            /\ calls[i + 2].fn = "RESET_MOD_STATE"

\* C2 amended: a stage script execution of a mod of the load order that
\* returns is immediately followed by UNLOAD_ENTIRE_CACHE and then by
\* RESET_MOD_STATE; core's data.lua is followed by UNLOAD_SESSION_CACHE and
\* the clearing of required_in_session instead; an execution that raises is
\* the last call made on the engine.
C2_CacheResetAfterScript ==
    \A i \in 1..Len(calls) :
        IsScript(calls[i]) =>
            IF ~calls[i].ok THEN i = Len(calls)
            ELSE /\ i + 2 <= Len(calls)
                 /\ i + 3 <= Len(calls) => ~IsScript(calls[i + 1]) /\ ~IsScript(calls[i + 2])
                 /\ IF calls[i].args[2] = "core"
                    THEN /\ calls[i + 1] = Call("UNLOAD_SESSION_CACHE", <<>>, TRUE)
                         /\ calls[i + 2] =
                               Call("execute", <<"chunk", "required_in_session = {}">>, TRUE)
                    ELSE /\ calls[i + 1] = Call("UNLOAD_ENTIRE_CACHE", <<>>, TRUE)
                         /\ calls[i + 2] = Call("RESET_MOD_STATE", <<>>, TRUE)

C2_Witness ==
    /\ pc = "sweep"
    /\ Len(ScriptExecs) >= 3
    /\ calls[Len(calls)].fn = "RESET_MOD_STATE"
    /\ lua.loaded = {}
    /\ lua.modstate = {}

\* A step of the sweep that skips its mod: no script for the stage.
SkipStep ==
    /\ pc = "sweep"
    /\ <<load_order[li], stages[si]>> \notin data'

\* C3 as claimed: for a skipped mod no call is made on the engine, and the
\* engine state (globals, search path, module cache, transient state) is as
\* it was.
C3_Original == [][SkipStep => (calls' = calls /\ lua' = lua)]_vars

\* C3 amended: for a mod without a script for the stage the orchestrator
\* makes exactly one call, SET_PATH(base_path); the globals, the module cache
\* and the transient state are unchanged and the search path is the base path.
C3_SkipOnlyResetsPath ==
    [][SkipStep =>
          /\ calls' = Append(calls, Call("SET_PATH", base_path, TRUE))
          /\ lua' = [lua EXCEPT !.path = base_path]]_vars

\* a skip that came right after another mod's script: the path was reset
C3_Witness ==
    /\ pc = "sweep"
    /\ Len(calls) >= 2
    /\ calls[Len(calls)].fn = "SET_PATH"
    /\ calls[Len(calls) - 1].fn = "RESET_MOD_STATE"
    /\ lua.path = base_path
    /\ lua.MOD_NAME \notin {"core", None}

\* C4: a stage script execution that raised is the last call made on the
\* engine, and update() has ended with its error: no later execution, cache
\* invalidation, reset or extraction.
C4_FailureAborts ==
    \A i \in 1..Len(calls) :
        (IsScript(calls[i]) /\ ~calls[i].ok) =>
            /\ i = Len(calls)
            /\ pc = "failed"
            /\ error = Raise("LuaError", <<calls[i].args[2], calls[i].args[3]>>)

\* a failure in the second stage, after other scripts ran
C4_Witness ==
    /\ pc = "failed"
    /\ error.type = "LuaError"
    /\ si = 2
    /\ li = 2
    /\ Len(ScriptExecs) >= 4

\* ------------------------------------------------------------ load order
\* The validation of every mod is over and the load order was computed.
Resolved == load_order # <<>>

Depth(name) == get_depth(mods, name, MaxRecursion)

IndexIn(seq, x) == CHOOSE i \in 1..Len(seq) : seq[i] = x

\* d is reached from m over at most n dependency edges of the registry
RECURSIVE Reaches(_, _, _)
Reaches(m, d, n) ==
    /\ n > 0
    /\ \E k \in SeqRange(ModOf(mods, m).dependencies) :
          k = d \/ Reaches(k, d, n - 1)

\* C5: when resolution succeeds, a mod that another one depends on, directly
\* or over a chain of edges, stands strictly before it in the load order.
C5_DependenciesFirst ==
    Resolved =>
        \A m, d \in ModNames(mods) :
            Reaches(m, d, Len(mods)) =>
                IndexIn(load_order, d) < IndexIn(load_order, m)

\* aaa -> bob -> base: the chain overrides the alphabetical order
C5_Witness ==
    /\ Resolved
    /\ load_order = <<"base", "bob", "aaa">>
    /\ ModOf(mods, "aaa").dependencies = <<"bob">>
    /\ ModOf(mods, "bob").dependencies = <<"base">>

\* The registries with the same mods and edges inserted in another order.
Reorderings(reg) ==
    {[i \in 1..Len(reg) |-> reg[f[i]]] : f \in Permutations(1..Len(reg))}

\* C6: the load order holds every mod of the registry once, ascending by
\* (depth, name), and is the same for every insertion order of the registry.
C6_SortedByDepthThenName ==
    Resolved =>
        /\ Len(load_order) = Len(mods)
        /\ SeqRange(load_order) = ModNames(mods)
        /\ \A i \in 1..(Len(load_order) - 1) :
              LET a == load_order[i]
                  b == load_order[i + 1]
              IN  \/ Depth(a) < Depth(b)
                  \/ Depth(a) = Depth(b) /\ NameRank(a) < NameRank(b)
        /\ \A reg \in Reorderings(mods) : LoadOrderOf(reg) = load_order

\* three mods of depth 1 discovered as base, bob, aaa
C6_Witness ==
    /\ Resolved
    /\ Len(mods) = 3
    /\ mods[2].name = "bob"
    /\ mods[3].name = "aaa"
    /\ \A i \in 1..3 : mods[i].dependencies = <<>>
    /\ load_order = <<"aaa", "base", "bob">>

\* C7 as claimed: core is loaded first and base is the first mod of the
\* load order the sweep iterates.
C7_Claim == Resolved => load_order[1] = "base"

\* The dependency edges of the registry hold a cycle.
Cyclic == \E m \in ModNames(mods) : Reaches(m, m, Len(mods))

\* C8 as claimed: with a cycle among the edges, resolution ends with a
\* DependencyCycle failure.
C8_Claim ==
    (Cyclic /\ mi > Len(mods) /\ pc # "resolve") =>
        (pc = "failed" /\ error.type = "DependencyCycle")

\* ------------------------------------------------------------- validation
\* C9: when the declaration just validated is Required (no modifier) and its
\* target is not in the registry, update() has failed with MissingModError
\* carrying the target's name, with or without a version constraint.
C9_MissingRequired ==
    (cur # NoDecl /\ cur.flag = None /\ cur.dep_name \notin ModNames(mods)) =>
        (pc = "failed" /\ error = Raise("MissingModError", <<cur.dep_name>>))

\* a Required declaration with a version constraint on a missing target
C9_Witness ==
    /\ pc = "failed"
    /\ cur.flag = None
    /\ cur.version # None
    /\ cur.dep_name \notin ModNames(mods)
    /\ error.type = "MissingModError"

\* C10 as claimed: an IncorrectModVersion failure identifies the target, the
\* constraint (operator and version) and the target's actual version.
C10_Claim ==
    error.type = "IncorrectModVersionError" =>
        /\ Len(error.args) = 4
        /\ error.args[1] = cur.dep_name
        /\ error.args[2] = cur.op
        /\ error.args[3] = cur.version
        /\ error.args[4] = ModOf(mods, cur.dep_name).version

\* The names of the archives and folders found in factorio-mods.
InstalledNames == {e[1] : e \in installed}

\* C11 as claimed: when the declaration just validated is Incompatible and
\* its target was found in factorio-mods, enabled or disabled in the mod
\* list, update() has failed with IncompatableModError carrying the name of
\* the declaring mod.
C11_Claim ==
    (cur # NoDecl /\ cur.flag = "!" /\ cur.dep_name \in InstalledNames) =>
        (pc = "failed" /\ error = Raise("IncompatableModError", <<mods[mi].name>>))

\* A step of the inner loop of "Create the dependency tree": cur' is the
\* declaration it validated, for the mod mods[mi].
ResolveStep == pc = "resolve" /\ di' = di + 1

\* What a step leaves behind when the declaration it validated ends as r.
EndsAs(r) ==
    /\ pc' = IF r.do = "raise" THEN "failed" ELSE pc
    /\ error' = IF r.do = "raise" THEN r.error ELSE error
    /\ mods' = IF r.do = "add" THEN AddDependency(mods, mi, cur'.dep_name) ELSE mods

\* C12: a step that validates an Optional declaration (?T) raises nothing
\* and adds no edge when T is not in the registry, and when T is in the
\* registry ends as the same declaration without the modifier ends: the same
\* version check, the same IncorrectModVersionError, the same edge.
C12_OptionalAsRequired ==
    [][(ResolveStep /\ cur'.flag = "?") =>
          IF cur'.dep_name \notin ModNames(mods)
          THEN mods' = mods /\ pc' = "resolve" /\ error' = NoError
          ELSE /\ EndsAs(Validate(mods, mods[mi].name, [cur' EXCEPT !.flag = None]))
               /\ \/ pc' = "failed" /\ error' = Raise("IncorrectModVersionError", <<cur'.version>>)
                  \/ pc' = "failed" /\ cur'.op = "=" /\ error'.type = "AssertionError"
                  \/ /\ pc' = "resolve"
                     /\ mods'[mi].dependencies = Append(mods[mi].dependencies, cur'.dep_name)]_vars

\* an Optional declaration with a version constraint added an edge
C12_Witness ==
    /\ pc = "resolve"
    /\ cur.flag = "?"
    /\ cur.version # None
    /\ cur.dep_name \in Candidates
    /\ mods[mi].dependencies # <<>>
    /\ mods[mi].dependencies[Len(mods[mi].dependencies)] = cur.dep_name

\* C13: a step that validates a LoadOrderOnly declaration (~T) fails with
\* MissingModError carrying T when T is not in the registry; when T is in the
\* registry it raises nothing and leaves the registry as it was, so no edge
\* is added and the depth of the declaring mod and the load order are those
\* of the registry without the declaration.
C13_LoadOrderOnly ==
    [][(ResolveStep /\ cur'.flag = "~") =>
          /\ mods' = mods
          /\ get_depth(mods', mods[mi].name, MaxRecursion)
                = get_depth(mods, mods[mi].name, MaxRecursion)
          /\ LoadOrderOf(mods') = LoadOrderOf(mods)
          /\ IF cur'.dep_name \notin ModNames(mods)
             THEN pc' = "failed" /\ error' = Raise("MissingModError", <<cur'.dep_name>>)
             ELSE pc' = "resolve" /\ error' = NoError]_vars

\* the second declaration of a mod was ~T on a registered T: no edge to T
C13_Witness ==
    /\ pc = "resolve"
    /\ di = 2
    /\ cur.flag = "~"
    /\ cur.dep_name \in ModNames(mods) \ {"base"}
    /\ cur.dep_name \notin SeqRange(mods[mi].dependencies)

\* ---------------------------------------------------------------- discovery
\* A step of the preload loop on the archive or folder of a mod that the mod
\* list has disabled.
DisabledDiscoverStep ==
    /\ pc = "discover"
    /\ \E e \in installed' \ installed : Lookup(mod_list, e[1]) = "False"

\* C14 as claimed: a mod that is installed but disabled is as a mod that is
\* not installed; so the iteration of the preload loop on it, which the same
\* input without the mod does not have, leaves the outcome of update() (the
\* registry, the error raised) as it was.
C14_Claim == [][DisabledDiscoverStep => UNCHANGED <<pc, error, mods>>]_vars

\* The errors `raise`d by the validation of a declaration.
ValidationErrors ==
    {"IncompatableModError", "MissingModError", "IncorrectModVersionError"}

\* C15: when the validation of a declaration has failed, update() has ended
\* with that error: no load order was computed, not even a partial one, and
\* no call was made on the scripting engine, which is as it was created.
C15_ValidationFailureStops ==
    error.type \in ValidationErrors =>
        /\ pc = "failed"
        /\ load_order = <<>>
        /\ calls = <<>>
        /\ lua = NewRuntime
        /\ ~ENABLED Next

\* the second declaration of the second mod failed, after an edge was added
C15_Witness ==
    /\ error.type = "IncorrectModVersionError"
    /\ mi = 3
    /\ di = 2
    /\ mods[2].dependencies # <<>>
    /\ mods[3].dependencies # <<>>
    /\ load_order = <<>>

\* C19 as claimed: a folder of an enabled mod is registered by discovery as
\* the archive of the same mod is.
C19_Claim ==
    \A e \in installed :
        (e[2] = "dir" /\ Lookup(mod_list, e[1]) = "True") => e[1] \in ModNames(mods)

\* mod-list.json was not found
ModListAbsent == mod_list = [n \in {"base"} |-> TRUE]

\* C20 as claimed: without the mod-list document, discovery goes over every
\* archive without an error and leaves it out of the registry.
C20_Original ==
    (ModListAbsent /\ \A e \in installed : e[2] = "zip") =>
        /\ ModNames(mods) = {"base"}
        /\ ~(pc = "failed" /\ mi = 0)

\* C20 amended: without the mod-list document the enablement map is
\* {base: true} and base stays the only mod of the registry, but discovery
\* ends at the first archive or folder it finds: an archive that passes its
\* asserts ends update() with a KeyError on its name. Only with nothing but
\* regular files in factorio-mods is the load order computed, as [base].
C20_AbsentModList ==
    ModListAbsent =>
        /\ DOMAIN mod_list = {"base"} /\ mod_list["base"]
        /\ ModNames(mods) = {"base"}
        /\ Resolved => load_order = <<"base">>
        /\ installed # {} =>
              /\ Cardinality(installed) = 1
              /\ pc = "failed"
              /\ mi = 0
              /\ \A e \in installed :
                    error = CASE e[2] = "zip" -> Raise("KeyError", <<e[1]>>)
                              [] e[2] = "dir" -> Raise("Exception", <<"Not ready yet!">>)
                              [] OTHER -> Raise("AssertionError", <<>>)

\* a regular file was passed over, then an archive ended update()
C20_Witness ==
    /\ ModListAbsent
    /\ Cardinality(listed) = 2
    /\ pc = "failed"
    /\ error.type = "KeyError"
    /\ error.args[1] \in InstalledNames

\* --------------------------------------------------------- settings file
\* get_mod_settings is over: it returned, or an exception left it.
DecodeOver == pc \in {"returned", "failed"}

\* C16 as claimed: decoding a tree that holds a node with a tag outside
\* 0..5, at the top or nested, fails; no document is returned.
C16_Claim == (mod_settings_dat \in UnknownTagBuffers /\ DecodeOver) => pc = "failed"

\* The file is a well-formed file cut short.
Truncated ==
    \E w \in WellFormedBuffers :
        /\ Len(mod_settings_dat) < Len(w)
        /\ mod_settings_dat = SubSeq(w, 1, Len(mod_settings_dat))

\* C17 as claimed: decoding a proper prefix of a well-formed file fails; no
\* document is returned.
C17_Claim == (Truncated /\ DecodeOver) => pc = "failed"

\* C18 as claimed: a file of the expected version whose header flag is set
\* is rejected before any node is decoded, with an error that is not the
\* error a file of another version is rejected with.
C18_Claim ==
    (DecodeOver /\ Len(mod_settings_dat) >= 9
                /\ SubSeq(mod_settings_dat, 1, 9) = FlagHeader) =>
        /\ pc = "failed"
        /\ tell = 9
        /\ mod_settings = EmptyDict
        /\ error.type # header(VersionHeader).error

\* ------------------------------------------------------------------ depth
\* The greatest of a non-empty set of numbers.
Greatest(S) == CHOOSE x \in S : \A y \in S : y <= x

\* 1 + max over the dependency edges of name of the depth get_depth gives
\* the dependency; 1 without edges.
OnePlusMaxDepth(name) ==
    LET ds == {Depth(d) : d \in SeqRange(ModOf(mods, name).dependencies)}
    IN  IF ds = {} THEN 1 ELSE 1 + Greatest(ds)

\* C23 as claimed: the depth get_depth computes for a mod is 1 + the
\* greatest depth among its dependencies, also with two or more
\* dependencies and with a dependency added twice.
C23_Claim ==
    \A m \in ModNames(mods) :
        Depth(m) # RecursionError => Depth(m) = OnePlusMaxDepth(m)

\* --------------------------------------------------------- version check
\* A version tuple padded with trailing zeros to n components.
Pad(t, n) == [i \in 1..n |-> IF i <= Len(t) THEN t[i] ELSE 0]

\* The comparison of versions a and r under op after padding the shorter.
PaddedCompare(a, op, r) ==
    LET n == Max(Len(a), Len(r))
    IN  EvalCompare(Pad(a, n), op, Pad(r, n))

\* C24 as claimed: when the declaration just validated has a version
\* constraint with an operator the comparison knows and its target is in the
\* registry, the version check has failed exactly when the comparison of the
\* padded versions does not satisfy the operator.
C24_Claim ==
    (/\ cur.flag \in {None, "?"}
     /\ cur.version # None
     /\ cur.op # "="
     /\ cur.dep_name \in ModNames(mods)) =>
        LET a == version_string_2_tuple(ModOf(mods, cur.dep_name).version)
            r == version_string_2_tuple(cur.version)
        IN  (error.type = "IncorrectModVersionError") <=> ~PaddedCompare(a, cur.op, r)

\* The kinds of failure resolution may end with: the three of the dependency
\* loop, the one for a string that is no declaration, and the one for a
\* cycle (RecursionError is what get_depth ends with on a cycle).
ResolutionErrors ==
    ValidationErrors \cup {"MalformedDependencyString", "DependencyCycle", "RecursionError"}

\* C25 as claimed: when update() has ended between the start of the
\* dependency loop and the load order, its error is of one of these kinds,
\* whatever the declaration strings were.
C25_Claim ==
    (pc = "failed" /\ mi >= 1 /\ load_order = <<>>) => error.type \in ResolutionErrors

\* C26 as claimed: the decoding of a file whose tree is a List node with n
\* children returns a list, with the stream just after the last child.
C26_Claim ==
    (mod_settings_dat \in ListBuffers /\ DecodeOver) =>
        /\ pc = "returned"
        /\ mod_settings.t = "list"
        /\ tell = Len(mod_settings_dat)

\* C27: the decoding of the reference encoding of a string, the one-byte
\* length form below 255 bytes and the four-byte form from 255 on, returns
\* the string, byte for byte, with the stream at the end of the encoding; an
\* absent string gives None and the stream stands right after its flag.
C27_StringDecoding ==
    /\ \A s \in Strings :
          (mod_settings_dat = StringBuffer(s) /\ DecodeOver) =>
              /\ pc = "returned"
              /\ mod_settings = [t |-> "str", v |-> s]
              /\ Len(mod_settings.v) = Len(s)
              /\ tell = Len(mod_settings_dat)
    /\ (mod_settings_dat = AbsentStringBuffer /\ DecodeOver) =>
          /\ pc = "returned"
          /\ mod_settings = NoneValue
          /\ tell = 12

\* the string of 70000 bytes was decoded
C27_Witness ==
    /\ pc = "returned"
    /\ mod_settings_dat \in StringBuffers
    /\ mod_settings.t = "str"
    /\ Len(mod_settings.v) = 70000

\* ----------------------------------------------------------- search path
\* The search path holds the base path and after it at most the location of
\* one mod of the load order.
PathOfOneMod ==
    \/ lua.path = base_path
    \/ \E m \in SeqRange(load_order) : lua.path = Append(base_path, ModOf(mods, m).location)

\* C28: once captured after core, the base path never changes and holds the
\* location of no mod of the load order; every execution of a mod's stage
\* script comes after SET_PATH(base_path), the binding of the globals and
\* ADD_PATH of that mod's own location, in this order with nothing between;
\* from then on the search path is the base path, alone or followed by the
\* location of the one mod whose script ran last.
C28_PathResetBeforeScript ==
    [][/\ base_path # <<>> => base_path' = base_path
       /\ (pc' \in {"sweep", "extract", "done"} \/ (pc' = "failed" /\ base_path' # <<>>)) =>
             /\ PathOfOneMod'
             /\ \A m \in SeqRange(load_order') :
                   ModOf(mods', m).location \notin SeqRange(base_path')
       /\ \A i \in 1..Len(calls') :
             (IsScript(calls'[i]) /\ calls'[i].args[2] # "core") =>
                 /\ i > 6
                 /\ calls'[i - 6] = Call("SET_PATH", base_path', TRUE)
                 /\ \A j \in (i - 5)..(i - 2) : calls'[j].fn = "set_global"
                 /\ calls'[i - 1] =
                       Call("ADD_PATH", <<ModOf(mods', calls'[i].args[2]).location>>, TRUE)
                 /\ (i = Len(calls') \/ i + 2 = Len(calls')) =>
                       lua'.path = Append(base_path',
                                          ModOf(mods', calls'[i].args[2]).location)]_vars

\* the second stage begins; in the first the scripts of two mods other than
\* base ran one after the other, and the path holds the second one only
C28_Witness ==
    /\ pc = "sweep"
    /\ Len(load_order) = 3
    /\ si = 2
    /\ li = 1
    /\ \E a, b \in 1..3 :
          /\ a < b
          /\ load_order[a] # "base" /\ load_order[b] # "base"
          /\ <<load_order[a], "data.lua">> \in data
          /\ <<load_order[b], "data.lua">> \in data
          /\ calls[Len(calls)].fn = "RESET_MOD_STATE"
          /\ lua.path = Append(base_path, ModOf(mods, load_order[b]).location)
          /\ ModOf(mods, load_order[a]).location \notin SeqRange(lua.path)

\* ---------------------------------------------------------------- settings
IsSettingsBinding(c) == c = Call("set_global", <<"settings">>, TRUE)

Consumed(cls) ==
    IF cls = "HeatInterface" THEN EntityKeywords \cup {"temperature", "mode"}
    ELSE EntityKeywords

\* one DraftsmanWarning for every keyword of the call the class does not take
UnconsumedWarnings(cls, kwargs) ==
    LET unconsumed == SelectSeq(kwargs, LAMBDA kv : kv[1] \notin Consumed(cls))
    IN  [i \in 1..Len(unconsumed) |-> Warning("DraftsmanWarning", unconsumed[i][1])]

IsDraftsmanWarning(w) == w.category = "DraftsmanWarning"

ValidConstruction ==
    /\ call.fn = "__init__"
    /\ call.name \in SeqRange(similar_entities(call.cls))

\* C21 for the classes whose module is loaded: the call returns the object
\* and the DraftsmanWarnings are those of the keywords the class does not take
C21_LoadedClasses ==
    (ValidConstruction /\ import_module(call.cls) = None) =>
        /\ raised = None
        /\ entity.cls = call.cls
        /\ SelectSeq(warned, IsDraftsmanWarning) = UnconsumedWarnings(call.cls, call.kwargs)

C21_LoadedWitness ==
    /\ ValidConstruction
    /\ call.cls = "Container"
    /\ Len(call.kwargs) = 2
    /\ Len(warned) = 1

\* C21: a constructor called with the name of one of the class's entities
\* and with any keywords returns the object, and the DraftsmanWarnings it
\* issues are one for every keyword the class does not take and none for a
\* keyword it takes (temperature and mode for HeatInterface).
C21_Claim ==
    ValidConstruction =>
        /\ raised = None
        /\ entity.cls = call.cls
        /\ SelectSeq(warned, IsDraftsmanWarning) = UnconsumedWarnings(call.cls, call.kwargs)

HasKeyOf(cb, key) == \E kv \in cb : kv[1] = key

WithoutKey(cb, key) == {kv \in cb : kv[1] # key}

\* What C22 says of one setter, applied to the object the script holds.
SetterLaws(Set(_, _), key) ==
    /\ \A v \in SetterValues :
         LET r == Set(entity, v)
         IN  IF v = PyNone
             THEN /\ r.raised = None
                  /\ r.self = [entity EXCEPT !.control_behavior = WithoutKey(@, key)]
             ELSE IF v.t = "bool"
             THEN /\ r.raised = None
                  /\ r.self = [entity EXCEPT !.control_behavior =
                                                 WithoutKey(@, key) \cup {<<key, v>>}]
                  /\ ~HasKeyOf(entity.control_behavior, key) =>
                        Set(r.self, PyNone) = Returns(entity, <<>>)
             ELSE /\ r.raised # None
                  /\ r.self = entity
    /\ ~HasKeyOf(entity.control_behavior, key) => Set(entity, PyNone) = Returns(entity, <<>>)

KeyOfSetter(fn) ==
    IF fn = "set_read_signal" THEN "circuit_read_signal" ELSE "circuit_close_signal"

\* C22: a call of set_read_signal or set_enable_disable of a RailSignal with
\* True or False stores the value under the setter's own key, with None it
\* removes that key, with any other value it raises and control_behavior is
\* as before; the other setter's key and the rest of the object stay as they
\* are; on an object without the key set(v) and then set(None) gives the
\* object back, and set(None) alone changes nothing.
C22_SetterRoundTrip ==
    [][/\ call'.fn \in {"set_read_signal", "set_enable_disable"} =>
            LET v == call'.kwargs[1][2]
                key == KeyOfSetter(call'.fn)
                cb == entity.control_behavior
            IN  /\ entity.cls = "RailSignal"
                /\ [entity' EXCEPT !.control_behavior = cb] = entity
                /\ IF v = PyNone
                   THEN /\ raised' = None
                        /\ entity'.control_behavior = WithoutKey(cb, key)
                   ELSE IF v.t = "bool"
                   THEN /\ raised' = None
                        /\ entity'.control_behavior = WithoutKey(cb, key) \cup {<<key, v>>}
                   ELSE /\ raised' # None
                        /\ entity' = entity
       /\ entity'.cls = "RailSignal" =>
            /\ SetterLaws(set_read_signal, "circuit_read_signal")'
            /\ SetterLaws(set_enable_disable, "circuit_close_signal")']_vars

\* set_read_signal(None) has returned and the key of the other setter is
\* there with its value
C22_Witness ==
    /\ call.fn = "set_read_signal"
    /\ call.kwargs[1][2] = PyNone
    /\ raised = None
    /\ entity.control_behavior = {<<"circuit_close_signal", PyBool(TRUE)>>}

TemperatureValues ==
    {PyNone, PyInt(-1), PyInt(0), PyInt(500), PyInt(1000), PyInt(1001),
     PyBool(TRUE), PyFloat(5), PyStr("5")}

ModeValues == Modes \cup {PyStr("incorrect"), PyInt(5), PyList}

\* the objects HeatInterface.__init__ returns for the keywords of Kwargs
HeatInterfaces ==
    {HeatInterface__init__("HeatInterface", "heat-interface", kw).self : kw \in Kwargs}

\* C30, the construction: HeatInterface(temperature = 2000) returns an
\* object whose mode is at-least and whose temperature is 2000, with a
\* TemperatureRangeWarning.
C30_Constructed ==
    (/\ ValidConstruction
     /\ call.cls = "HeatInterface"
     /\ HasKey(call.kwargs, "temperature")) =>
        /\ raised = None
        /\ entity.cls = "HeatInterface"
        /\ entity.temperature = GetItem(call.kwargs, "temperature")
        /\ entity.mode \in Modes
        /\ Warning("TemperatureRangeWarning", "temperature") \in SeqRange(warned)

\* C30, the assignments of a temperature to the objects of the class
C30_Temperature ==
    \A self \in HeatInterfaces : \A v \in TemperatureValues :
        LET r == temperature_setter(self, v)
        IN  IF v = PyNone \/ v.t \in {"int", "bool"}
            THEN /\ r.raised = None
                 /\ r.self = [self EXCEPT !.temperature = v]
                 /\ (v # PyNone /\ ~(0 <= v.n /\ v.n <= 1000)) <=>
                       r.warned = <<Warning("TemperatureRangeWarning", "temperature")>>
            ELSE r.raised = "TypeError" /\ r.self = self

\* C30, the assignments of a mode to the objects of the class
C30_Mode ==
    \A self \in HeatInterfaces : \A v \in ModeValues :
        LET r == mode_setter(self, v)
        IN  IF v \in Modes
            THEN r.raised = None /\ r.self = [self EXCEPT !.mode = v]
            ELSE r.raised = "InvalidModeError" /\ r.self = self

\* C30: a HeatInterface is constructed with the mode at-least and the
\* temperature 0 or those of its keywords; after the construction and any
\* assignments its mode is one of at-least, at-most, exactly, add, remove
\* and None and its temperature is None or an integer; the assignment of any
\* other mode raises InvalidModeError and that of any other temperature
\* TypeError, and the object is as before; an integer outside 0..1000 is
\* stored as it is, with a TemperatureRangeWarning.
C30_Claim ==
    /\ entity.cls = "HeatInterface" =>
          /\ entity.mode \in Modes
          /\ entity.temperature = PyNone \/ isinstance_int(entity.temperature)
    /\ C30_Constructed
    /\ C30_Temperature
    /\ C30_Mode

====
